---- MODULE Spec2Model ----
(***************************************************************************)
(* peeker: a host-metrics printer.  The repository holds three programs     *)
(* built from the same provider glue:                                       *)
(*   "console"  src/main.go            plain text, one section per metric   *)
(*   "bar"      src/unnamed/part_000   styled two-line status bar, every    *)
(*                                     Display* function guards its record  *)
(*   "bar1"     src/unnamed/part_001   styled status bar, Render reads the  *)
(*                                     records inline                       *)
(* A behaviour is one run of one of them: package initialisation, the       *)
(* provider queries in program order, the printing, exit.  The metrics      *)
(* provider and the terminal are the environment: each query returns a      *)
(* record or an error, and the terminal may be resized while the program    *)
(* runs.                                                                    *)
(*                                                                          *)
(* Encodings.  A Go pointer or slice is a sequence: <<>> is nil / empty,    *)
(* <<r>> points at r.  A float64 is an integer number of thousandths.  A    *)
(* uint64 is held as the integer congruent to it modulo 2^64 that lies in   *)
(* (-2^31, 2^31): n >= 0 is n itself, n < 0 is 2^64 + n (what an unsigned   *)
(* subtraction that wrapped leaves behind); FormatUint prints the unsigned  *)
(* value.                                                                   *)
(***************************************************************************)
EXTENDS Integers, Sequences, FiniteSets, TLC

VARIABLES
    variant,        \* which program runs
    pc,             \* position of the single thread of control
    termWidth,      \* the terminal's column count now (0: the query fails)
    terminalWidth,  \* package-level variable of part_000
    sb,             \* the StatusBar struct (the snapshot)
    res,            \* what each provider query returned, per category
    calls,          \* the provider queries issued so far, in order
    stdout,         \* console lines printed so far, each with its printer
    bar             \* the status bar printed by Render, <<>> before that

vars == <<variant, pc, termWidth, terminalWidth, sb, res, calls, stdout, bar>>

----------------------------------------------------------------------------
(* Bounds of the model *)

\* longest per-core percentage list the provider returns
MaxCores == 3

----------------------------------------------------------------------------
(* Program constants *)

\* Variant: a decimal megabyte.
MegabyteDivDecimal == 1000 * 1000
\* const megabyteDiv uint64 = 1024 * 1024, and gigabyteDiv from it
megabyteDiv == 1024 * 1024
gigabyteDiv == megabyteDiv * 1024

Variants == {"console", "bar", "bar1"}
BarVariants == {"bar", "bar1"}
Categories == {"host", "cpu", "mem", "disk"}
BuildOrder == <<"host", "cpu", "mem", "disk">>
ConsoleOrder == <<"host", "cpu", "mem", "disk", "cores">>

\* Column counts the terminal takes; 0 is what term.GetSize leaves in the
\* width when it fails (standard output is not a terminal).
Widths == {0, 20, 80}

----------------------------------------------------------------------------
(* What the provider can return *)

HostStats ==
    { [Hostname |-> "box1", Platform |-> "ubuntu",
       PlatformVersion |-> "22.04", KernelArch |-> "x86_64"],
      [Hostname |-> "localhost.local", Platform |-> "darwin",
       PlatformVersion |-> "14.4.1", KernelArch |-> "arm64"] }

Gen9 == [ModelName |-> "Gen9", Family |-> "", Mhz |-> 3200000]
M2 == [ModelName |-> "Apple M2", Family |-> "6", Mhz |-> 2419456]

CPULists == { <<>>, <<Gen9>>, <<M2, Gen9>> }

MemStats ==
    { [Total |-> 2147483647, Available |-> 524288000, UsedPercent |-> 75000],
      [Total |-> 2097152, Available |-> 1, UsedPercent |-> 87456],
      [Total |-> 1048575, Available |-> 1048575, UsedPercent |-> 0],
      [Total |-> 1048576, Available |-> 2097152, UsedPercent |-> 50500] }

DiskStats ==
    { [Total |-> 2147483647, Used |-> 1073741824, Free |-> 1073741823,
       UsedPercent |-> 50500],
      [Total |-> 1073741823, Used |-> 0, Free |-> 1073741823,
       UsedPercent |-> 0] }

Percents == {0, 87456}

RECURSIVE SeqsUpTo(_, _)
SeqsUpTo(S, n) ==
    IF n = 0 THEN { <<>> }
    ELSE LET shorter == SeqsUpTo(S, n - 1)
         IN shorter \cup { Append(s, x) : s \in { t \in shorter : Len(t) = n - 1 }, x \in S }

CorePercentages == SeqsUpTo(Percents, MaxCores)

\* A reply of the external library: a value and an error.  A failing call
\* may carry a value next to its error.
Replies(values, partial) ==
    { [err |-> FALSE, val |-> v] : v \in values }
        \cup { [err |-> TRUE, val |-> v] : v \in {<<>>} \cup partial }

HostReplies == Replies({ <<h>> : h \in HostStats },
                       { <<[Hostname |-> "box1", Platform |-> "", PlatformVersion |-> "", KernelArch |-> ""]>> })
CPUReplies == Replies(CPULists, { <<Gen9>> })
MemReplies == Replies({ <<m>> : m \in MemStats }, {})
DiskReplies == Replies({ <<d>> : d \in DiskStats },
                       { <<[Total |-> 0, Used |-> 0, Free |-> 0, UsedPercent |-> 0]>> })
CoreReplies == Replies(CorePercentages, {})

NotCalled == [called |-> FALSE, err |-> FALSE, val |-> <<>>]
Called(reply) == [called |-> TRUE, err |-> reply.err, val |-> reply.val]

\* GetHostInformation, GetCPUStat, GetHostMemory, GetDiskInformation,
\* GetCPUPercentage: nil and the error when the library fails, else its value.
Get(reply) ==
    IF reply.err THEN [err |-> TRUE, val |-> <<>>]
    ELSE [err |-> FALSE, val |-> reply.val]

----------------------------------------------------------------------------
(* Formatting *)

Pad2(n) == IF n < 10 THEN "0" \o ToString(n) ELSE ToString(n)
Pad4(n) ==
    IF n < 10 THEN "000" \o ToString(n)
    ELSE IF n < 100 THEN "00" \o ToString(n)
    ELSE IF n < 1000 THEN "0" \o ToString(n)
    ELSE ToString(n)

\* strconv.FormatUint(n, 10) and %d of a uint64.  2^64 = 18446744073709551616;
\* for a wrapped value 2^64 + n, -9999 < n < 0, only the last four digits move.
FormatUint(n) ==
    IF n >= 0 THEN ToString(n)
    ELSE IF -n <= 1616 THEN "1844674407370955" \o Pad4(1616 + n)
    ELSE "1844674407370954" \o Pad4(11616 + n)

\* strconv.Itoa
Itoa(i) == ToString(i)

\* strconv.FormatFloat(x, 'f', 2, 64): two decimals, rounded to nearest.  The
\* values the provider sets below have no 5 in the thousandths, so no tie.
FormatFloat(x) ==
    LET h == (x + 5) \div 10
    IN ToString(h \div 100) \o "." \o Pad2(h % 100)

\* %2.f: no decimals, rounded to nearest (ties to even), width at least 2.
FormatPercent(x) ==
    LET q == x \div 1000
        r == x % 1000
        n == IF r > 500 THEN q + 1
             ELSE IF r < 500 THEN q
             ELSE IF q % 2 = 0 THEN q ELSE q + 1
    IN IF n < 10 THEN " " \o ToString(n) ELSE ToString(n)

\* cases.Title(language.AmericanEnglish).String(s), on the platform names
\* the provider returns.
Title(s) ==
    CASE s = "ubuntu" -> "Ubuntu"
      [] s = "darwin" -> "Darwin"
      [] OTHER -> s

----------------------------------------------------------------------------
(* Console printing (src/main.go) *)

ConsoleDisplayHostInformation(hostStat) ==
    << "Hostname: " \o hostStat.Hostname,
       "Operating System: " \o hostStat.Platform \o " " \o hostStat.PlatformVersion
           \o " (" \o hostStat.KernelArch \o ")" >>

DisplayCPUStat(cpuStat) ==
    IF Len(cpuStat) # 0
    THEN << "Model Name: " \o cpuStat[1].ModelName \o " "
            \o "Family: " \o cpuStat[1].Family \o " "
            \o "Speed: " \o FormatFloat(cpuStat[1].Mhz) \o " MHz" >>
    ELSE << >>

ConsoleDisplayHostMemory(vmStat) ==
    << "Total memory: " \o FormatUint(vmStat.Total \div megabyteDiv) \o " MB",
       "Free memory: " \o FormatUint(vmStat.Available \div megabyteDiv) \o " MB",
       "Percentage used memory: " \o FormatFloat(vmStat.UsedPercent) \o " %" >>

ConsoleDisplayDiskInformation(diskStat) ==
    << "Total disk space: " \o FormatUint(diskStat.Total \div gigabyteDiv) \o " GB",
       "Used disk space: " \o FormatUint(diskStat.Used \div gigabyteDiv) \o " GB",
       "Free disk space: " \o FormatUint(diskStat.Free \div gigabyteDiv) \o " GB",
       "Percentage disk space usage: " \o FormatFloat(diskStat.UsedPercent) \o " %" >>

\* percentage[:len(percentage)/2] and percentage[len(percentage)/2:]
FirstCpus(percentage) == SubSeq(percentage, 1, Len(percentage) \div 2)
SecondCpus(percentage) ==
    SubSeq(percentage, Len(percentage) \div 2 + 1, Len(percentage))

\* One printed core line; idx is the value handed to strconv.Itoa.
CoreLine(idx, cpupercent) ==
    "\tCPU [" \o Itoa(idx) \o "]: " \o FormatFloat(cpupercent) \o " %"

\* Variant: the second loop starts one index too far.
OffsetPlusOne(firstCpus) == Len(firstCpus) + 1
\* oftset := len(firstCpus)
Oftset(firstCpus) == Len(firstCpus)

\* The two range loops; a Go range index starts at 0, a TLA+ index at 1.
DisplayCPUPercentage(percentage) ==
    LET firstCpus == FirstCpus(percentage)
        secondCpus == SecondCpus(percentage)
        oftset == Oftset(firstCpus)
    IN << "Cores:" >>
       \o [ i \in 1..Len(firstCpus) |-> CoreLine(i - 1, firstCpus[i]) ]
       \o [ i \in 1..Len(secondCpus) |-> CoreLine((i - 1) + oftset, secondCpus[i]) ]

----------------------------------------------------------------------------
(* The terminal renderer (lipgloss), as far as the layout uses it *)

\* The styles of the bar, as far as they size a cell: the columns of
\* horizontal padding (Padding(0, 1) is one on each side) and of margin.
diskStyle == [padding |-> 2, margin |-> 0]
memoryStyle == [padding |-> 2, margin |-> 0]
highlightLeftStyle == [padding |-> 2, margin |-> 1]
highlightRightStyle == [padding |-> 2, margin |-> 1]
generalTextStyle == [padding |-> 0, margin |-> 0]

\* A rendered cell: its text, the width its style was given (0: none set) and
\* the columns it takes (lipgloss.Width of the rendered string).
\* Style.Render pads every line by the style's padding and margin; with a
\* width set that leaves room for text it wraps the text and fills the
\* block to that width; a width that is not positive counts as not set.
StyleRender(style, text, width) ==
    [ text |-> text,
      req |-> width,
      width |-> IF width - style.padding > 0
                THEN width + style.margin
                ELSE Len(text) + style.padding + style.margin ]

\* lipgloss.Width
w(cell) == cell.width

----------------------------------------------------------------------------
(* Status-bar cells (src/unnamed/part_000) *)

\* Variant: the bytes are subtracted first and the difference divided.
MemoryFiguresSubtractFirst(mem) ==
    IF mem # <<>>
    THEN [ memoryTotal |-> mem[1].Total \div megabyteDiv,
           memoryAvailable |-> mem[1].Available \div megabyteDiv,
           memoryInUse |-> (mem[1].Total - mem[1].Available) \div megabyteDiv,
           memoryUsedPercentenge |-> mem[1].UsedPercent ]
    ELSE [ memoryTotal |-> 0, memoryAvailable |-> 0, memoryInUse |-> 0,
           memoryUsedPercentenge |-> 0 ]

\* The locals of DisplayHostMemory: zero values, overwritten when the record
\* is there.  memoryInUse is a uint64 subtraction.
MemoryFigures(mem) ==
    IF mem # <<>>
    THEN LET memoryTotal == mem[1].Total \div megabyteDiv
             memoryAvailable == mem[1].Available \div megabyteDiv
         IN [ memoryTotal |-> memoryTotal,
              memoryAvailable |-> memoryAvailable,
              memoryInUse |-> memoryTotal - memoryAvailable,
              memoryUsedPercentenge |-> mem[1].UsedPercent ]
    ELSE [ memoryTotal |-> 0, memoryAvailable |-> 0, memoryInUse |-> 0,
           memoryUsedPercentenge |-> 0 ]

\* Variant: an absent memory record leaves the cell without text.
DisplayHostMemoryBlank(s, width) ==
    LET f == MemoryFigures(s.mem)
        memoryInformation ==
            IF s.mem = <<>> THEN ""
            ELSE "Memory: " \o FormatUint(f.memoryInUse) \o " of "
                 \o FormatUint(f.memoryTotal) \o " MB used ("
                 \o FormatPercent(f.memoryUsedPercentenge) \o "%)"
    IN StyleRender(memoryStyle, memoryInformation, width)

DisplayHostMemory(s, width) ==
    LET f == MemoryFigures(s.mem)
        memoryInformation ==
            "Memory: " \o FormatUint(f.memoryInUse) \o " of "
            \o FormatUint(f.memoryTotal) \o " MB used ("
            \o FormatPercent(f.memoryUsedPercentenge) \o "%)"
    IN StyleRender(memoryStyle, memoryInformation, width)

DisplayHostInformation(s, width) ==
    LET hostName == IF s.host # <<>> THEN s.host[1].Hostname ELSE ""
        hostArch == IF s.host # <<>> THEN s.host[1].KernelArch ELSE ""
        hostInformation == hostName \o " " \o hostArch
    IN StyleRender(generalTextStyle, hostInformation, width)

DisplayPlatformInformation(s) ==
    LET platformName == IF s.host # <<>> THEN Title(s.host[1].Platform) ELSE ""
        platformVersion == IF s.host # <<>> THEN s.host[1].PlatformVersion ELSE ""
        platformInformation == platformName \o " " \o platformVersion
    IN StyleRender(highlightLeftStyle, platformInformation, 0)

\* The locals of DisplayDiskInformation.
DiskFigures(disk) ==
    IF disk # <<>>
    THEN [ diskTotal |-> disk[1].Total \div gigabyteDiv,
           diskUsed |-> disk[1].Used \div gigabyteDiv,
           diskUsedPercent |-> disk[1].UsedPercent ]
    ELSE [ diskTotal |-> 0, diskUsed |-> 0, diskUsedPercent |-> 0 ]

\* Variant: the disk figures are read only when the memory record is there.
DisplayDiskInformationNeedsMemory(s) ==
    LET f == DiskFigures(IF s.mem # <<>> THEN s.disk ELSE <<>>)
        diskInformation ==
            "Disk: " \o FormatUint(f.diskUsed) \o " of " \o FormatUint(f.diskTotal)
            \o " GB used (" \o FormatPercent(f.diskUsedPercent) \o "%)"
    IN StyleRender(diskStyle, diskInformation, 0)

DisplayDiskInformation(s) ==
    LET f == DiskFigures(s.disk)
        diskInformation ==
            "Disk: " \o FormatUint(f.diskUsed) \o " of " \o FormatUint(f.diskTotal)
            \o " GB used (" \o FormatPercent(f.diskUsedPercent) \o "%)"
    IN StyleRender(diskStyle, diskInformation, 0)

DisplayCPUInformation(s) ==
    LET cpuInformation ==
            IF Len(s.cpu) # 0
            THEN s.cpu[1].ModelName \o " " \o FormatFloat(s.cpu[1].Mhz) \o " MHz"
            ELSE ""
    IN StyleRender(highlightRightStyle, cpuInformation, 0)

\* StatusBar.Render of part_000, up to the string it prints: the cells of
\* the two lines, laid out for a terminal of T columns.
RenderBar(s, T) ==
    LET platformCell == DisplayPlatformInformation(s)
        cpuCell == DisplayCPUInformation(s)
        hostCell == DisplayHostInformation(s, T - w(platformCell) - w(cpuCell))
        diskCell == DisplayDiskInformation(s)
        memoryCell == DisplayHostMemory(s, T - w(diskCell))
    IN [ T |-> T,
         platformCell |-> platformCell, hostCell |-> hostCell, cpuCell |-> cpuCell,
         memoryCell |-> memoryCell, diskCell |-> diskCell,
         memory |-> MemoryFigures(s.mem), disk |-> DiskFigures(s.disk) ]

----------------------------------------------------------------------------
(* Status bar of src/unnamed/part_001 *)

\* Render reads sb.host (line 203), sb.disk (line 234) and sb.mem (line 241)
\* through their pointers without a nil check: a nil one is a run-time panic.
NilDereference(s) == s.host = <<>> \/ s.disk = <<>> \/ s.mem = <<>>

\* StatusBar.Render of part_001 on a snapshot that has all three records.
RenderInline(s, T) ==
    LET platformInformation ==
            Title(s.host[1].Platform) \o " " \o s.host[1].PlatformVersion
        hostInformation == s.host[1].Hostname \o " " \o s.host[1].KernelArch
        cpuInformation ==
            IF Len(s.cpu) # 0
            THEN s.cpu[1].ModelName \o " " \o FormatFloat(s.cpu[1].Mhz) \o " MHz"
            ELSE ""
        platformCell == StyleRender(highlightLeftStyle, platformInformation, 0)
        cpuCell == StyleRender(highlightRightStyle, cpuInformation, 0)
        hostVal == StyleRender(generalTextStyle, hostInformation,
                               T - w(platformCell) - w(cpuCell))
        d == DiskFigures(s.disk)
        diskInformation ==
            "Disk: " \o FormatUint(d.diskUsed) \o " of " \o FormatUint(d.diskTotal)
            \o " used (" \o FormatPercent(d.diskUsedPercent) \o " %)"
        diskCell == StyleRender(diskStyle, diskInformation, 0)
        m == MemoryFigures(s.mem)
        memoryInformation ==
            "Memory used: " \o FormatUint(m.memoryInUse) \o " of "
            \o FormatUint(m.memoryTotal) \o " MB ("
            \o FormatPercent(m.memoryUsedPercentenge) \o "% used)"
        memoryCell == StyleRender(memoryStyle, memoryInformation, T - w(diskCell))
    IN [ T |-> T,
         platformCell |-> platformCell, hostCell |-> hostVal, cpuCell |-> cpuCell,
         memoryCell |-> memoryCell, diskCell |-> diskCell,
         memory |-> m, disk |-> d ]

----------------------------------------------------------------------------
(* The programs *)

ZeroStatusBar == [cpu |-> <<>>, disk |-> <<>>, host |-> <<>>, mem |-> <<>>]

Init ==
    /\ variant \in Variants
    /\ pc = "load"
    /\ termWidth \in Widths
    /\ terminalWidth = 0
    /\ sb = ZeroStatusBar
    /\ res = [c \in Categories \cup {"cores"} |-> NotCalled]
    /\ calls = <<>>
    /\ stdout = <<>>
    /\ bar = <<>>

\* Package initialisation.  part_000 evaluates term.GetSize here, into the
\* package-level terminalWidth; the other programs have no such variable.
Load ==
    /\ pc = "load"
    /\ terminalWidth' = IF variant = "bar" THEN termWidth ELSE terminalWidth
    /\ pc' = "host"
    /\ UNCHANGED <<variant, termWidth, sb, res, calls, stdout, bar>>

\* The user resizes the terminal (or it stays what it is) while the program
\* runs.
Resize ==
    /\ pc \notin {"done", "panic"}
    /\ termWidth' \in Widths \ {termWidth}
    /\ UNCHANGED <<variant, pc, terminalWidth, sb, res, calls, stdout, bar>>

\* Variant: a failed query ends the program.
BuilderNextAbortOnError(stage, err) ==
    IF err THEN "done"
    ELSE CASE stage = "host" -> "cpu"
           [] stage = "cpu" -> "mem"
           [] stage = "mem" -> "disk"
           [] stage = "disk" -> "render"

\* main of the status bar: the With* calls are chained, each returns the
\* *StatusBar and nothing else, so the next call follows whatever the query
\* returned.
BuilderNext(stage, err) ==
    CASE stage = "host" -> "cpu"
      [] stage = "cpu" -> "mem"
      [] stage = "mem" -> "disk"
      [] stage = "disk" -> "render"

\* The body shared by the four With* methods: one query, the field assigned
\* only when err == nil.
With(stage, replies) ==
    /\ variant \in BarVariants
    /\ pc = stage
    /\ \E reply \in replies :
         LET got == Get(reply)
         IN /\ sb' = IF ~got.err THEN [sb EXCEPT ![stage] = got.val] ELSE sb
            /\ res' = [res EXCEPT ![stage] = Called(reply)]
            /\ pc' = BuilderNext(stage, got.err)
    /\ calls' = Append(calls, stage)
    /\ UNCHANGED <<variant, termWidth, terminalWidth, stdout, bar>>

WithHostInformation == With("host", HostReplies)
WithCPUInformation == With("cpu", CPUReplies)
WithMemoryInformation == With("mem", MemReplies)
WithDiskInformation == With("disk", DiskReplies)

\* StatusBar.Render of part_000: lays the bar out for the package-level
\* terminalWidth and prints it.
Render ==
    /\ variant = "bar"
    /\ pc = "render"
    /\ bar' = << RenderBar(sb, terminalWidth) >>
    /\ pc' = "done"
    /\ UNCHANGED <<variant, termWidth, terminalWidth, sb, res, calls, stdout>>

\* StatusBar.Render of part_001: queries the terminal, reads the records,
\* prints the bar as its last statement.
RenderUnguarded ==
    /\ variant = "bar1"
    /\ pc = "render"
    /\ IF NilDereference(sb)
       THEN pc' = "panic" /\ bar' = bar
       ELSE pc' = "done" /\ bar' = << RenderInline(sb, termWidth) >>
    /\ UNCHANGED <<variant, termWidth, terminalWidth, sb, res, calls, stdout>>

\* Variant: a failed query ends the program.
ConsoleNextAbortOnError(stage, err) ==
    IF err THEN "done"
    ELSE CASE stage = "host" -> "cpu"
           [] stage = "cpu" -> "mem"
           [] stage = "mem" -> "disk"
           [] stage = "disk" -> "cores"
           [] stage = "cores" -> "done"

\* main of the console program: five if statements in a row, none with an
\* else branch or a return.
ConsoleNext(stage, err) ==
    CASE stage = "host" -> "cpu"
      [] stage = "cpu" -> "mem"
      [] stage = "mem" -> "disk"
      [] stage = "disk" -> "cores"
      [] stage = "cores" -> "done"

\* What one if statement of main prints for the value its query returned.
ConsoleSection(stage, val) ==
    CASE stage = "host" -> ConsoleDisplayHostInformation(val[1])
      [] stage = "cpu" -> DisplayCPUStat(val)
      [] stage = "mem" -> ConsoleDisplayHostMemory(val[1])
      [] stage = "disk" -> ConsoleDisplayDiskInformation(val[1])
      [] stage = "cores" -> DisplayCPUPercentage(val)

\* Lines on standard output, each kept with the if statement of main whose
\* display call printed it.
Printed(stage, lines) == [ i \in 1..Len(lines) |-> [by |-> stage, line |-> lines[i]] ]

\* One if statement of main: query, and display when err == nil.
ConsoleStep(stage, replies) ==
    /\ variant = "console"
    /\ pc = stage
    /\ \E reply \in replies :
         LET got == Get(reply)
         IN /\ stdout' = IF ~got.err
                         THEN stdout \o Printed(stage, ConsoleSection(stage, got.val))
                         ELSE stdout
            /\ res' = [res EXCEPT ![stage] = Called(reply)]
            /\ pc' = ConsoleNext(stage, got.err)
    /\ calls' = Append(calls, stage)
    /\ UNCHANGED <<variant, termWidth, terminalWidth, sb, bar>>

ConsoleHost == ConsoleStep("host", HostReplies)
ConsoleCPUStat == ConsoleStep("cpu", CPUReplies)
ConsoleMemory == ConsoleStep("mem", MemReplies)
ConsoleDisk == ConsoleStep("disk", DiskReplies)
ConsoleCPUPercentage == ConsoleStep("cores", CoreReplies)

\* The steps of the program itself, without the environment.
Step ==
    \/ Load
    \/ WithHostInformation
    \/ WithCPUInformation
    \/ WithMemoryInformation
    \/ WithDiskInformation
    \/ Render
    \/ RenderUnguarded
    \/ ConsoleHost
    \/ ConsoleCPUStat
    \/ ConsoleMemory
    \/ ConsoleDisk
    \/ ConsoleCPUPercentage

Next == Step \/ Resize

Spec == Init /\ [][Next]_vars

----------------------------------------------------------------------------
(* Vocabulary of the properties *)

Succeeded(c) == res[c].called /\ ~res[c].err
Failed(c) == res[c].called /\ res[c].err

\* The lines a category's display call printed, in order.
RECURSIVE LinesBy(_, _)
LinesBy(c, out) ==
    IF out = <<>> THEN <<>>
    ELSE IF Head(out).by = c THEN <<Head(out).line>> \o LinesBy(c, Tail(out))
    ELSE LinesBy(c, Tail(out))

\* The printers of the lines, without immediate repetitions: the order of
\* the sections.
RECURSIVE SectionOrder(_)
SectionOrder(out) ==
    IF out = <<>> THEN <<>>
    ELSE LET rest == SectionOrder(Tail(out))
         IN IF rest # <<>> /\ Head(rest) = Head(out).by THEN rest
            ELSE <<Head(out).by>> \o rest

\* The cells of the bar that show a category.
CellsOf(c) ==
    CASE c = "host" -> {"platformCell", "hostCell"}
      [] c = "cpu" -> {"cpuCell"}
      [] c = "mem" -> {"memoryCell"}
      [] c = "disk" -> {"diskCell"}

AllCells == UNION { CellsOf(c) : c \in Categories }

IsPrefix(s, t) == Len(s) <= Len(t) /\ s = SubSeq(t, 1, Len(s))

BarPrinted == bar # <<>>

----------------------------------------------------------------------------
(* C1 *)

\* C1: building the snapshot never aborts early.  In both status-bar
\* programs, whatever the four queries return, the queries issued are always
\* a prefix of host, CPU, memory, disk (fixed order, none twice, none
\* skipped), the program stands at the query after the last one issued, and
\* it comes to Render, and only past the build, with all four issued; no
\* failure ends the build or the program.
C1_BuildNeverAborts ==
    variant \in BarVariants =>
        /\ IsPrefix(calls, BuildOrder)
        /\ pc \in {"host", "cpu", "mem", "disk"} => pc = BuildOrder[Len(calls) + 1]
        /\ pc \in {"render", "done", "panic"} => calls = BuildOrder
        /\ \A c \in Categories : res[c].called <=> (\E i \in 1..Len(calls) : calls[i] = c)

\* The build finished with the host and memory queries failed and the CPU
\* and disk queries answered.
C1_Witness ==
    /\ variant \in BarVariants
    /\ pc = "render"
    /\ Failed("host") /\ Succeeded("cpu") /\ Failed("mem") /\ Succeeded("disk")
    /\ calls = BuildOrder

----------------------------------------------------------------------------
(* C2 *)

\* The snapshot with category c as a failed query leaves it.
Without(s, c) == [s EXCEPT ![c] = <<>>]

\* What the console program prints for a category, given only what that
\* category's query returned.
OwnSection(c) ==
    IF Succeeded(c) THEN ConsoleSection(c, res[c].val) ELSE <<>>

\* What a cell shows on the terminal: its text and the columns it fills.
Rendered(cell) == <<cell.text, cell.width>>

\* Every snapshot field holds what its own query returned and nothing else:
\* the value when the query succeeded, the zero value when it failed or has
\* not been issued.
FieldsFollowOwnQuery ==
    \A c \in Categories :
        sb[c] = IF Succeeded(c) THEN res[c].val ELSE <<>>

\* C2 (as stated): in the status bar of part_000, the rendered cells of the
\* other categories are the same, text and width, as they would be had
\* category c failed; in the console program every category's lines follow
\* from its own query alone; a failed query leaves its field zero.
C2_RenderedOutputIsolated ==
    /\ variant \in BarVariants => FieldsFollowOwnQuery
    /\ (variant = "bar" /\ pc = "done") =>
           \A c \in Categories : \A cell \in AllCells \ CellsOf(c) :
               Rendered(bar[1][cell])
                   = Rendered(RenderBar(Without(sb, c), bar[1].T)[cell])
    /\ variant = "console" =>
           \A c \in Categories \cup {"cores"} : LinesBy(c, stdout) = OwnSection(c)

\* C2 (amended): fault isolation holds for the snapshot fields and for the
\* text of the cells: the text in the cells of the other categories is the
\* same as it would be had category c failed, a failed query leaves its
\* field zero, and the console lines of a category follow from its own query
\* alone.  (The widths of the host and memory cells are not isolated: they
\* are what the platform, CPU and disk cells leave of the line.)
C2_TextIsolated ==
    /\ variant \in BarVariants => FieldsFollowOwnQuery
    /\ (variant = "bar" /\ pc = "done") =>
           \A c \in Categories : \A cell \in AllCells \ CellsOf(c) :
               bar[1][cell].text = RenderBar(Without(sb, c), bar[1].T)[cell].text
    /\ variant = "console" =>
           \A c \in Categories \cup {"cores"} : LinesBy(c, stdout) = OwnSection(c)

\* The bar of part_000 printed after the memory query failed and the other
\* three answered, the disk with figures that are not zero.
C2_Witness ==
    /\ variant = "bar"
    /\ pc = "done"
    /\ BarPrinted
    /\ Failed("mem") /\ Succeeded("host") /\ Succeeded("disk")
    /\ Succeeded("cpu") /\ sb.cpu # <<>>
    /\ sb.mem = <<>>
    /\ bar[1].disk.diskTotal > 0

----------------------------------------------------------------------------
(* C3 *)

\* C3: in the status-bar programs Render never dereferences an absent
\* record: whatever subset of the categories is absent from the snapshot,
\* the program does not panic, and once Render has run the bar is printed.
C3_RenderNeverCrashes ==
    variant \in BarVariants =>
        /\ pc # "panic"
        /\ pc = "done" => BarPrinted

----------------------------------------------------------------------------
(* C4 *)

\* The sections the console program prints, in program order, for the
\* queries issued so far.
RECURSIVE ExpectedConsole(_)
ExpectedConsole(n) ==
    IF n = 0 THEN <<>>
    ELSE ExpectedConsole(n - 1)
         \o Printed(ConsoleOrder[n], OwnSection(ConsoleOrder[n]))

HasSection(c) == LinesBy(c, stdout) # <<>>

\* The console program neither panics nor stops before its end, and issues
\* its five queries in order.
ConsoleRunsToEnd ==
    /\ pc # "panic"
    /\ pc # "done" => ENABLED Step
    /\ IsPrefix(calls, ConsoleOrder)
    /\ pc = "done" => calls = ConsoleOrder

\* C4 (as stated): the console program has no fatal path, and at its end
\* has printed a section for exactly the categories whose query succeeded.
C4_SectionIffSucceeded ==
    variant = "console" =>
        /\ ConsoleRunsToEnd
        /\ pc = "done" =>
               \A c \in Categories \cup {"cores"} : HasSection(c) <=> Succeeded(c)

\* C4 (amended): the console program has no fatal path; at its end it has
\* printed, in the order host, CPU info, memory, disk, cores, the section of
\* every category whose query succeeded and nothing for a failed one, where
\* the CPU info section is one line when the query returned at least one
\* CPU record and no line when it succeeded with an empty list.
C4_ConsoleCompletes ==
    variant = "console" =>
        /\ ConsoleRunsToEnd
        /\ stdout = ExpectedConsole(Len(calls))
        /\ pc = "done" =>
               /\ \A c \in {"host", "mem", "disk", "cores"} :
                      HasSection(c) <=> Succeeded(c)
               /\ HasSection("cpu") <=> (Succeeded("cpu") /\ res["cpu"].val # <<>>)
               /\ \E skip \in SUBSET (Categories \cup {"cores"}) :
                      SectionOrder(stdout)
                          = SelectSeq(ConsoleOrder, LAMBDA c : c \notin skip)

\* The console program at its end with every query failed and nothing
\* printed.
C4_Witness ==
    /\ variant = "console"
    /\ pc = "done"
    /\ \A c \in Categories \cup {"cores"} : Failed(c)
    /\ stdout = <<>>

----------------------------------------------------------------------------
(* C5 *)

\* The core lines of a single pass over the percentages: index i - 1 next
\* to the i-th percentage.
SinglePass(percentage) ==
    [ i \in 1..Len(percentage) |->
        "\tCPU [" \o ToString(i - 1) \o "]: " \o FormatFloat(percentage[i]) \o " %" ]

\* C5: per-core split.  For the percentage list of any length N the
\* provider returned, the first half has N div 2 entries and the second the
\* other N - N div 2, and what DisplayCPUPercentage printed is the header and
\* then N lines that carry the indices 0..N-1 in increasing order, each next
\* to the percentage at that position of the list: the output of one pass.
C5_PerCoreSplit ==
    (variant = "console" /\ Succeeded("cores")) =>
        LET percentage == res["cores"].val
            N == Len(percentage)
        IN /\ Len(FirstCpus(percentage)) = N \div 2
           /\ Len(SecondCpus(percentage)) = N - N \div 2
           /\ FirstCpus(percentage) \o SecondCpus(percentage) = percentage
           /\ LinesBy("cores", stdout) = <<"Cores:">> \o SinglePass(percentage)

\* The cores section printed for a list of odd length with both halves
\* filled.
C5_Witness ==
    /\ variant = "console"
    /\ pc = "done"
    /\ Succeeded("cores")
    /\ Len(res["cores"].val) = 3
    /\ res["cores"].val[1] # res["cores"].val[2]
    /\ Len(LinesBy("cores", stdout)) = 4

----------------------------------------------------------------------------
(* C6 *)

\* C6: every MB figure shown is the byte count div 1048576 and every GB
\* figure the byte count div 1073741824, truncated: the console's total and
\* free memory and its total, used and free disk space, and the status
\* bars' total memory (and the available memory they subtract from it) and
\* total and used disk space.
C6_TruncatingUnits ==
    /\ (variant = "console" /\ Succeeded("mem")) =>
           LET vmStat == res["mem"].val[1]
               lines == LinesBy("mem", stdout)
           IN /\ lines[1] = "Total memory: " \o ToString(vmStat.Total \div 1048576) \o " MB"
              /\ lines[2] = "Free memory: " \o ToString(vmStat.Available \div 1048576) \o " MB"
    /\ (variant = "console" /\ Succeeded("disk")) =>
           LET diskStat == res["disk"].val[1]
               lines == LinesBy("disk", stdout)
           IN /\ lines[1] = "Total disk space: "
                                \o ToString(diskStat.Total \div 1073741824) \o " GB"
              /\ lines[2] = "Used disk space: "
                                \o ToString(diskStat.Used \div 1073741824) \o " GB"
              /\ lines[3] = "Free disk space: "
                                \o ToString(diskStat.Free \div 1073741824) \o " GB"
    /\ (variant \in BarVariants /\ BarPrinted /\ sb.mem # <<>>) =>
           LET total == ToString(sb.mem[1].Total \div 1048576)
               used == FormatUint(bar[1].memory.memoryInUse)
               pct == FormatPercent(sb.mem[1].UsedPercent)
           IN /\ bar[1].memory.memoryTotal = sb.mem[1].Total \div 1048576
              /\ bar[1].memory.memoryAvailable = sb.mem[1].Available \div 1048576
              /\ bar[1].memoryCell.text =
                    IF variant = "bar"
                    THEN "Memory: " \o used \o " of " \o total \o " MB used (" \o pct \o "%)"
                    ELSE "Memory used: " \o used \o " of " \o total \o " MB (" \o pct \o "% used)"
    /\ (variant \in BarVariants /\ BarPrinted /\ sb.disk # <<>>) =>
           LET total == ToString(sb.disk[1].Total \div 1073741824)
               used == ToString(sb.disk[1].Used \div 1073741824)
               pct == FormatPercent(sb.disk[1].UsedPercent)
           IN bar[1].diskCell.text =
                    IF variant = "bar"
                    THEN "Disk: " \o used \o " of " \o total \o " GB used (" \o pct \o "%)"
                    ELSE "Disk: " \o used \o " of " \o total \o " used (" \o pct \o " %)"

\* The console printed a memory of one byte less than a megabyte as 0 MB
\* and free disk space of one byte less than a gigabyte as 0 GB.
C6_Witness ==
    /\ variant = "console"
    /\ pc = "done"
    /\ Succeeded("mem") /\ res["mem"].val[1].Total = 1048575
    /\ Succeeded("disk") /\ res["disk"].val[1].Free = 1073741823
    /\ LinesBy("mem", stdout)[1] = "Total memory: 0 MB"
    /\ LinesBy("disk", stdout)[3] = "Free disk space: 0 GB"

----------------------------------------------------------------------------
(* C7 *)

\* C7: in the status bars the used-memory figure is the truncated total in
\* MB minus the truncated available memory in MB, the uint64 subtraction
\* made after the two divisions, and that figure is what the memory cell
\* shows in front of the total.
C7_UsedIsTotalMinusAvailable ==
    (variant \in BarVariants /\ BarPrinted /\ sb.mem # <<>>) =>
        LET total_MB == sb.mem[1].Total \div 1048576
            available_MB == sb.mem[1].Available \div 1048576
            shown == FormatUint(total_MB - available_MB) \o " of " \o FormatUint(total_MB)
        IN /\ bar[1].memory.memoryInUse = total_MB - available_MB
           /\ bar[1].memoryCell.text \in
                 { "Memory: " \o shown \o " MB used ("
                       \o FormatPercent(sb.mem[1].UsedPercent) \o "%)",
                   "Memory used: " \o shown \o " MB ("
                       \o FormatPercent(sb.mem[1].UsedPercent) \o "% used)" }

\* A bar printed for a memory record on which subtracting before dividing
\* gives another figure: 2097152 bytes in total, 1 available, 2 MB used.
C7_Witness ==
    /\ variant \in BarVariants
    /\ BarPrinted
    /\ sb.mem # <<>>
    /\ sb.mem[1].Total = 2097152 /\ sb.mem[1].Available = 1
    /\ (sb.mem[1].Total - sb.mem[1].Available) \div 1048576 = 1
    /\ bar[1].memory.memoryInUse = 2

----------------------------------------------------------------------------
(* C8 *)

\* C8: the status bar is sized to the terminal's column count at the time
\* of the Render call: the bar was laid out for that width, and the widths
\* given to the center cell of line 1 and to the memory cell of line 2 were
\* computed from it.  (The terminal is not resized once the program has
\* ended, so in a final state termWidth is the width Render ran under.)
C8_WidthAtRenderTime ==
    (variant \in BarVariants /\ pc = "done" /\ BarPrinted) =>
        /\ bar[1].T = termWidth
        /\ bar[1].hostCell.req
               = termWidth - w(bar[1].platformCell) - w(bar[1].cpuCell)
        /\ bar[1].memoryCell.req = termWidth - w(bar[1].diskCell)

----------------------------------------------------------------------------
(* C9 *)

\* A cell text without label, number or unit.
Blank(text) == text \in {"", " "}

----------------------------------------------------------------------------
(* C10 *)

\* C10: for every terminal width T the bar is laid out for, the cells of
\* each line take no more than T columns, and the width given to the host
\* cell and to the memory cell is never negative.
C10_LinesFitTerminal ==
    (variant \in BarVariants /\ BarPrinted) =>
        LET b == bar[1]
        IN /\ b.hostCell.req = b.T - w(b.platformCell) - w(b.cpuCell)
           /\ b.memoryCell.req = b.T - w(b.diskCell)
           /\ b.hostCell.req >= 0
           /\ b.memoryCell.req >= 0
           /\ w(b.platformCell) + w(b.hostCell) + w(b.cpuCell) <= b.T
           /\ w(b.memoryCell) + w(b.diskCell) <= b.T

----------------------------------------------------------------------------
(* C11 *)

\* The order of two uint64 values held by their representatives: a
\* negative representative stands for 2^64 + n, above every non-negative one.
U64LessEq(a, b) ==
    IF (a >= 0) = (b >= 0) THEN a <= b ELSE a >= 0

\* The uint64 subtraction a - b wrapped around below zero.
U64Wrapped(a, b) == ~U64LessEq(b, a)

\* C11: for every memory record the provider returns, Available above Total
\* included, the used-memory figure of the status bars does not exceed the
\* total-memory figure shown next to it: the unsigned subtraction
\* memoryTotal - memoryAvailable does not wrap around below zero.
C11_UsedNeverExceedsTotal ==
    (variant \in BarVariants /\ BarPrinted /\ sb.mem # <<>>) =>
        LET f == bar[1].memory
        IN /\ ~U64Wrapped(f.memoryTotal, f.memoryAvailable)
           /\ U64LessEq(f.memoryInUse, f.memoryTotal)

====
